---- MODULE Spec2Model ----
(***************************************************************************)
(* A model of akeydo: the D-Bus service (service.py) that keeps the target *)
(* ring, the devices plug-in (plugins/devices/manager.py), the replicated  *)
(* input device with its replicator thread (plugins/devices/input.py), the *)
(* GPU plug-in's calls to set_host (plugins/gpu/manager.py) and the        *)
(* parsing of the domain XML (libvirt.py).                                 *)
(*                                                                         *)
(* Python's None is modelled by the string HOST when it is a target and by *)
(* the empty set when it is a hotkey.  An XML document is modelled by the  *)
(* features of it that the parser looks at.                                *)
(***************************************************************************)
EXTENDS Integers, Sequences, FiniteSets, TLC

VARIABLES
    targets,        \* AkeydoService._targets: the ring, a sequence
    target,         \* AkeydoService._target
    current_host,   \* AkeydoService._current_host
    released,       \* AkeydoService._released
    tasks,          \* plug-in tasks created on the service's loop, FIFO
    running,        \* the service's event loop has not been stopped
    ret,            \* what the last bus call returned
    signals,        \* Target property changes emitted by the last step
    domxml,         \* the domain XML libvirt holds for a prepared guest
    devices,        \* devices.Manager._devices: source -> object (0: none)
    dev,            \* the ReplicatedDevice objects
    symlinks,       \* /dev/input/by-id/<prefix>-<source>: owning object or 0
    thr,            \* the replicator threads
    injected,       \* sinks that were sent the QEMU grab chord
    held,           \* keys the kernel reports as held on the source
    queue,          \* events delivered by the kernel and not yet read
    evlog,          \* every event the source produced, in order
    wlog,           \* every write of a source event to a sink, in order
    shielded_vms,   \* cpu.Manager._shielded_vms
    vm_cpus,        \* cgroup2.Driver._vm_cpus
    cpuset,         \* cpuset.cpus of the host's slices, as last written
    pinned_cpus,    \* the guests the hypervisor runs and the CPUs each pins
    sysctl,         \* the kernel tunables the cpu plug-in manages
    saved_values,   \* system._values: tunable -> value saved by set
    act,            \* what each thread is doing with the focus state
    lock,           \* AkeydoService._lock: the thread that holds it
    waiting,        \* plug-in tasks suspended in asyncio.sleep, in order
    gpu_ops,        \* what the gpu plug-in last did to the host for the boot GPU
    mem             \* the pool of 1 GiB huge pages and the guest that uses it

svcVars == <<targets, target, current_host, released, tasks, running>>
outVars == <<ret, signals>>
devVars == <<devices, dev, symlinks, thr, injected>>
keyVars == <<held, queue, evlog, wlog>>
cpuVars == <<shielded_vms, vm_cpus, cpuset, pinned_cpus, sysctl, saved_values>>
lockVars == <<act, lock>>
vars == <<svcVars, outVars, domxml, devVars, keyVars, cpuVars, lockVars, waiting, gpu_ops, mem>>

----------------------------------------------------------------------------
(* Bounds of the model. *)

MaxObjs == 1        \* ReplicatedDevice objects alive at a time
MaxThreads == 1     \* replicator threads alive at a time
MaxRaceThreads == 2 \* replicator threads alive at a time in SpecRace
MaxEvents == 3      \* source events in a run of SpecPass
MaxFocusEvents == 2 \* source events in a run of SpecFocus or SpecSet
MaxKeyEvents == 4   \* source events in a run of SpecKeys
MaxDetachEvents == 2 \* source events in a run of SpecDetach or SpecWrite
MaxRing == 3        \* length of the target ring
MaxWaiting == 1     \* plug-in tasks suspended at a time
MaxPool == 2        \* huge pages of the pool when a run starts
NumCpus == 4        \* CPUs of the host ("cpu cores" of /proc/cpuinfo)

(* Values. *)

Actors == {"loop", "replicator"}    \* the threads that use the focus state
Free == "free"                      \* the lock is held by nobody

HOST == "HOST"                  \* service.py:73, input.py:41 (None)
HostDisplay == "host device"    \* service.py:184
NoAct == [pc |-> "idle", val |-> HOST, was |-> FALSE, tgt |-> HOST,
          seen |-> {}, torn |-> FALSE]
Guests == {"a", "b"}
Targets == Guests \cup {HOST}
Sources == {"kbd"}
NoHotkey == {}                  \* hotkey.py: parse_hotkeys returns None
NoEntry == "-"                  \* a chord that is no key of _hotkeys
RaisedError == "error"          \* the handler raised: D-Bus error reply

(* settings/hotkey.py: HotkeySettings.  qemu and toggle are the defaults,  *)
(* release is configured to KEY_LEFTALT, host is left unset.               *)
KEY_LEFTCTRL == 29
KEY_RIGHTCTRL == 97
KEY_LEFTALT == 56
KEY_A == 30
Keys == {KEY_LEFTCTRL, KEY_RIGHTCTRL, KEY_LEFTALT, KEY_A}
hotkeys_qemu == {KEY_LEFTCTRL, KEY_RIGHTCTRL}
hotkeys_toggle == hotkeys_qemu
hotkeys_release == {KEY_LEFTALT}
hotkeys_host == NoHotkey
GuestHotkey == {KEY_RIGHTCTRL}
Chords == {hotkeys_toggle, hotkeys_release, GuestHotkey}

Plugins == <<"devices", "gpu">>     \* setup.py: [akeydo.plugins], enabled

----------------------------------------------------------------------------
(* Helpers on sequences. *)

Range(s) == {s[i] : i \in 1..Len(s)}

\* list.index: position of the first occurrence (0 when there is none)
Index(s, x) ==
    IF x \in Range(s) THEN CHOOSE i \in 1..Len(s) : s[i] = x /\ \A j \in 1..(i-1) : s[j] # x
    ELSE 0

\* list.remove: without the first occurrence of x
Remove(s, x) ==
    LET i == Index(s, x)
    IN IF i = 0 THEN s ELSE SubSeq(s, 1, i-1) \o SubSeq(s, i+1, Len(s))

Count(s, x) == Cardinality({i \in 1..Len(s) : s[i] = x})

----------------------------------------------------------------------------
(* libvirt.py: the domain XML and VirtualMachineConfig.                    *)
(* root: the document is well formed; name: it has a <name>; memory: it    *)
(* has a <memory> with an integer; devices: the sources of the evdev paths *)
(* /dev/input/by-id/<guest>-<source>; pci: the kinds of hostdev PCI        *)
(* devices (the boot GPU or another device); hotkey: akeydo:hotkey.        *)

Xml(root, name, memory, devs, pci, hotkey) ==
    [root |-> root, name |-> name, memory |-> memory, devices |-> devs,
     pci |-> pci, hotkey |-> hotkey]

XmlPlain == Xml(TRUE, TRUE, TRUE, {}, {}, NoHotkey)
XmlKbd == Xml(TRUE, TRUE, TRUE, {"kbd"}, {}, NoHotkey)
XmlKbdHotkey == Xml(TRUE, TRUE, TRUE, {"kbd"}, {}, GuestHotkey)
XmlBootGpu == Xml(TRUE, TRUE, TRUE, {}, {"boot"}, NoHotkey)
XmlOtherPci == Xml(TRUE, TRUE, TRUE, {"kbd"}, {"other"}, NoHotkey)
XmlOtherPciOnly == Xml(TRUE, TRUE, TRUE, {}, {"other"}, NoHotkey)
XmlMalformed == Xml(FALSE, FALSE, FALSE, {}, {}, NoHotkey)
XmlNoName == Xml(TRUE, FALSE, TRUE, {"kbd"}, {}, NoHotkey)
XmlNoMemory == Xml(TRUE, TRUE, FALSE, {}, {}, NoHotkey)

GoodXml == {XmlPlain, XmlKbd, XmlKbdHotkey, XmlBootGpu, XmlOtherPci, XmlOtherPciOnly}
BadXml == {XmlMalformed, XmlNoName, XmlNoMemory}
XmlDocs == GoodXml \cup BadXml
NoXml == Xml(FALSE, FALSE, FALSE, {}, {"-"}, NoHotkey)

\* the spec's parse: a malformed root or a missing <name> is InvalidConfig
MustFail(xml) == ~xml.root \/ ~xml.name

NoConfig == [devices |-> {}, pci |-> {}, hotkey |-> NoHotkey]

\* VirtualMachineConfig.__init__ raises: xml.fromstring on a malformed
\* document, _parse_memory when root.find(".//memory") is None
ParseRaises(xml) == ~xml.root \/ ~xml.memory

\* VirtualMachineConfig.__init__: without a <name>, name is None and no
\* evdev path starts with "/dev/input/by-id/None-"
VirtualMachineConfig(xml) ==
    [devices |-> IF xml.name THEN xml.devices ELSE {},
     pci |-> xml.pci,
     hotkey |-> xml.hotkey]

----------------------------------------------------------------------------
(* service.py: AkeydoService.  The methods are operators on a record of    *)
(* the service's fields; new holds the plug-in tasks the call creates and  *)
(* signals the Target changes it emits.                                    *)

Svc == [targets |-> targets, target |-> target, current_host |-> current_host,
        released |-> released, new |-> <<>>, signals |-> <<>>]

Task(plugin, func, vm, config) ==
    [plugin |-> plugin, func |-> func, vm |-> vm, config |-> config]

\* _call_plugin_func: a task for every plug-in that has the function
HasFunc(plugin, func) ==
    \/ func \in {"vm_prepare", "vm_release"}
    \/ func = "target_changed" /\ plugin = "devices"
    \/ func = "stop" /\ plugin = "devices"

RECURSIVE CallPlugins(_, _, _, _)
CallPlugins(order, func, vm, config) ==
    IF order = <<>> THEN <<>>
    ELSE (IF HasFunc(Head(order), func)
          THEN <<Task(Head(order), func, vm, config)>> ELSE <<>>)
         \o CallPlugins(Tail(order), func, vm, config)

\* reversed
ReverseMutant(s) == s
Reverse(s) == [i \in 1..Len(s) |-> s[Len(s) + 1 - i]]

\* vm_count
vm_count(tgts) == Len(tgts) - 1

\* target (getter)
TargetGetMutant(s) ==
    IF s.target # HOST THEN s.target ELSE s.current_host
TargetGet(s) ==
    LET current_target == IF s.target # HOST THEN s.target ELSE s.current_host
    IN IF ~s.released THEN current_target ELSE s.current_host

\* target (setter)
TargetSetMutant(s, v) ==
    LET val == IF v # HOST THEN v ELSE s.current_host
        display == IF val # HOST THEN val ELSE HostDisplay
    IN [s EXCEPT !.released = FALSE,
                 !.target = val,
                 !.new = @ \o CallPlugins(Plugins, "target_changed", val, NoConfig),
                 !.signals = Append(@, display)]
TargetSet(s, v) ==
    LET val == IF v # HOST THEN v ELSE s.current_host
        display == IF val # HOST THEN val ELSE HostDisplay
    IN IF val = s.target THEN s
       ELSE [s EXCEPT !.released = FALSE,
                      !.target = val,
                      !.new = @ \o CallPlugins(Plugins, "target_changed", val, NoConfig),
                      !.signals = Append(@, display)]

\* toggle raises ValueError (index) or ZeroDivisionError (empty ring)
ToggleRaises(s) == s.target \notin Range(s.targets)

\* toggle: the assignment to self.target
Toggle(s) ==
    TargetSet(s, s.targets[(Index(s.targets, s.target) % Len(s.targets)) + 1])

\* set_host
SetHost(s, vm) ==
    LET s1 == IF TargetGet(s) = s.current_host THEN TargetSet(s, vm) ELSE s
        s2 == [s1 EXCEPT !.current_host = vm]
    IN IF vm = HOST THEN [s2 EXCEPT !.targets = <<HOST>> \o @]
       ELSE IF HOST \in Range(s2.targets) THEN [s2 EXCEPT !.targets = Remove(@, HOST)]
       ELSE s2

\* released (setter): no plug-in has target_release
ReleasedSetMutant(s, value) ==
    IF s.released = value THEN s
    ELSE [s EXCEPT !.released = value, !.target = s.current_host]
ReleasedSet(s, value) ==
    IF s.released = value THEN s ELSE [s EXCEPT !.released = value]

\* vm_release, after the XML was parsed
ReleaseGuestMutant(s, vm, config) ==
    LET s1 == [s EXCEPT !.targets = Remove(@, vm)]
        s2 == IF vm = s1.current_host THEN SetHost(s1, HOST) ELSE s1
    IN [s2 EXCEPT !.new = @ \o CallPlugins(Reverse(Plugins), "vm_release", vm, config)]
ReleaseGuest(s, vm, config) ==
    LET s1 == [s EXCEPT !.targets = Remove(@, vm)]
        s2 == IF vm = s1.current_host THEN SetHost(s1, HOST) ELSE s1
        s3 == IF s2.target = vm THEN TargetSet(s2, s2.current_host) ELSE s2
    IN [s3 EXCEPT !.new = @ \o CallPlugins(Reverse(Plugins), "vm_release", vm, config)]

\* the fields of the service after a call that ran on the service's loop
SvcBecomes(s) ==
    /\ targets' = s.targets
    /\ target' = s.target
    /\ current_host' = s.current_host
    /\ released' = s.released
    /\ signals' = s.signals

----------------------------------------------------------------------------
(* plugins/devices: Manager and ReplicatedDevice.  The methods are         *)
(* operators on a record of the plug-in's state: the map of sources, the   *)
(* objects, the symlinks and the threads.  raised: the call raised; over:  *)
(* the call needs more objects or threads than the model has.              *)

NoDev == [src |-> "-", source_open |-> FALSE, sinks |-> {},
          hotkeys |-> [c \in Chords |-> NoEntry],
          grab_task |-> 0, replicate_task |-> 0]

\* ReplicatedDevice.__init__
NewDevice(src) ==
    [NoDev EXCEPT !.src = src,
                  !.hotkeys = [c \in Chords |-> IF c = hotkeys_host THEN HOST ELSE NoEntry]]

NoThread == [obj |-> 0, pc |-> "unused", destroy |-> FALSE, is_release |-> FALSE,
             is_toggle |-> FALSE, hotkey_triggered |-> NoHotkey, firing |-> {},
             sink |-> NoEntry]

World == [devices |-> devices, dev |-> dev, symlinks |-> symlinks, thr |-> thr,
          injected |-> injected, raised |-> FALSE, over |-> FALSE]

\* the objects and threads of the model that are not in use
FreeObjs(D) == {o \in 1..MaxObjs : D.dev[o] = NoDev}
FreeThreads(D) == {t \in DOMAIN D.thr : D.thr[t] = NoThread}
First(S) == CHOOSE x \in S : \A y \in S : x <= y

\* an object that neither the map nor a thread refers to is collected
Referenced(D, o) ==
    \/ \E src \in Sources : D.devices[src] = o
    \/ \E t \in DOMAIN D.thr : D.thr[t].obj = o
Collect(D) ==
    [D EXCEPT !.dev = [o \in 1..MaxObjs |->
                         IF ~Referenced(D, o) /\ D.dev[o].sinks = {} /\ ~D.dev[o].source_open
                         THEN NoDev ELSE D.dev[o]]]

\* _create_device: the sink, and the symlink <key>-<source> replaced
CreateDevice(D, o, key) ==
    [D EXCEPT !.dev[o].sinks = @ \cup {key},
              !.symlinks[<<key, D.dev[o].src>>] = o]

\* _destroy_device: the symlink at the path is unlinked whoever made it
DestroyDevice(D, o, key) ==
    IF key \notin D.dev[o].sinks THEN D
    ELSE [D EXCEPT !.symlinks[<<key, D.dev[o].src>>] = 0,
                   !.dev[o].sinks = @ \ {key},
                   !.injected = @ \ {<<o, key>>}]

\* start: open the source and make the host sink; start a thread when no
\* task is recorded
Start(D, o) ==
    LET D1 == IF ~D.dev[o].source_open
              THEN CreateDevice([D EXCEPT !.dev[o].source_open = TRUE], o, HOST)
              ELSE D
    IN IF D1.dev[o].grab_task = 0 /\ D1.dev[o].replicate_task = 0
       THEN IF FreeThreads(D1) = {} THEN [D1 EXCEPT !.over = TRUE]
            ELSE [D1 EXCEPT !.thr[First(FreeThreads(D1))] =
                                [NoThread EXCEPT !.obj = o, !.pc = "spawned"]]
       ELSE D1

\* add
Add(D, o, vm, hotkey) ==
    LET D1 == IF hotkey # NoHotkey THEN [D EXCEPT !.dev[o].hotkeys[hotkey] = vm] ELSE D
    IN CreateDevice(Start(D1, o), o, vm)

\* stop: destroy is posted to the loop of the grab task; a closed loop raises
Stop(D, o) ==
    LET t == D.dev[o].grab_task
    IN IF t = 0 THEN D
       ELSE IF D.thr[t].pc = "crashed" THEN [D EXCEPT !.raised = TRUE]
       ELSE [D EXCEPT !.thr[t].destroy = TRUE]

\* remove
RemoveSink(D, o, vm, hotkey) ==
    LET D1 == DestroyDevice(D, o, vm)
        D2 == IF hotkey # NoHotkey THEN [D1 EXCEPT !.dev[o].hotkeys[hotkey] = NoEntry] ELSE D1
    IN IF Cardinality(D2.dev[o].sinks) = 1 THEN Stop(D2, o) ELSE D2

\* Manager.vm_prepare, for the sources still to do; present: the source
\* exists (ReplicatedDevice.__init__ raises IOError when it does not, and
\* the error is raised again once wait_duration is over)
RECURSIVE ManagerPrepare(_, _, _, _, _)
ManagerPrepare(D, vm, hotkey, srcs, present) ==
    IF srcs = {} \/ D.over \/ D.raised THEN D
    ELSE LET src == CHOOSE x \in srcs : TRUE
             D1 == IF D.devices[src] # 0 THEN D
                   ELSE IF ~present THEN [D EXCEPT !.raised = TRUE]
                   ELSE IF FreeObjs(D) = {} THEN [D EXCEPT !.over = TRUE]
                   ELSE [D EXCEPT !.dev[First(FreeObjs(D))] = NewDevice(src),
                                  !.devices[src] = First(FreeObjs(D))]
         IN IF D1.over \/ D1.raised THEN D1
            ELSE ManagerPrepare(Add(D1, D1.devices[src], vm, hotkey), vm, hotkey,
                                srcs \ {src}, present)

\* Manager.vm_release, for the sources still to do; count is vm_count
RECURSIVE ManagerRelease(_, _, _, _, _)
ManagerRelease(D, vm, hotkey, srcs, count) ==
    IF srcs = {} \/ D.raised THEN D
    ELSE LET src == CHOOSE x \in srcs : TRUE
         IN IF D.devices[src] = 0 THEN [D EXCEPT !.raised = TRUE]    \* KeyError
            ELSE LET D1 == RemoveSink(D, D.devices[src], vm, hotkey)
                     D2 == IF ~D1.raised /\ count = 0
                           THEN [D1 EXCEPT !.devices[src] = 0] ELSE D1
                 IN ManagerRelease(D2, vm, hotkey, srcs \ {src}, count)

\* grab: the QEMU chord is written to the sink of the target, when the
\* target is not the host, has a sink here and the sink can be grabbed
Grab(D, o, tgt, can_grab) ==
    IF tgt = HOST \/ tgt \notin D.dev[o].sinks \/ ~can_grab THEN D
    ELSE [D EXCEPT !.injected = @ \cup {<<o, tgt>>}]

\* Manager.target_changed: grab on every device of the map
RECURSIVE TargetChanged(_, _, _, _)
TargetChanged(D, tgt, can_grab, srcs) ==
    IF srcs = {} THEN D
    ELSE LET src == CHOOSE x \in srcs : TRUE
         IN TargetChanged(IF D.devices[src] = 0 THEN D
                          ELSE Grab(D, D.devices[src], tgt, can_grab),
                          tgt, can_grab, srcs \ {src})

WorldBecomes(D) ==
    /\ devices' = D.devices
    /\ dev' = D.dev
    /\ symlinks' = D.symlinks
    /\ thr' = D.thr
    /\ injected' = D.injected

----------------------------------------------------------------------------
(* plugins/cpu: Manager and the cgroup2 Driver, as operators on a record   *)
(* of the plug-in's state.  A cpuset is the set of CPUs the kernel reads   *)
(* from the comma separated list written to cpuset.cpus; a slice nothing   *)
(* was written to runs on every CPU.                                       *)

ALL_CPUS == 0..(NumCpus - 1)
HOST_CGROUPS == {"init.scope", "user.slice", "system.slice"}

\* the tunables: what the plug-in sets them to and what the kernel boots with
Tunables == {"stat_interval", "watchdog", "numa"}
ShieldedValue == [stat_interval |-> 120, watchdog |-> 0, numa |-> 1]
BootValue == [stat_interval |-> 1, watchdog |-> 1, numa |-> 0]

CpuManager == [shielded_vms |-> shielded_vms, vm_cpus |-> vm_cpus,
               cpuset |-> cpuset, sysctl |-> sysctl,
               saved_values |-> saved_values, raised |-> FALSE]

\* system.set: its first statement calls self.get, which _System does not
\* define; AttributeError is raised before a value is saved or written
SystemSet(m, path, value) == [m EXCEPT !.raised = TRUE]

\* system.reset: writes back the value set saved; KeyError when none was
SystemReset(m, path) ==
    IF path \in DOMAIN m.saved_values
    THEN [m EXCEPT !.sysctl[path] = m.saved_values[path]]
    ELSE [m EXCEPT !.raised = TRUE]

\* the calls of a handler one after the other, up to the first that raises
SetAll(m) ==
    LET m1 == SystemSet(m, "stat_interval", ShieldedValue.stat_interval)
        m2 == IF m1.raised THEN m1 ELSE SystemSet(m1, "watchdog", ShieldedValue.watchdog)
    IN IF m2.raised THEN m2 ELSE SystemSet(m2, "numa", ShieldedValue.numa)
ResetAll(m) ==
    LET m1 == SystemReset(m, "stat_interval")
        m2 == IF m1.raised THEN m1 ELSE SystemReset(m1, "watchdog")
    IN IF m2.raised THEN m2 ELSE SystemReset(m2, "numa")

\* _set_host_cpus
SetHostCpus(m) ==
    LET host_cpus == IF ALL_CPUS \ m.vm_cpus # {} THEN ALL_CPUS \ m.vm_cpus ELSE {0}
    IN [m EXCEPT !.cpuset = [cgroup \in HOST_CGROUPS |-> host_cpus]]

shield_cpu(m, cpu) == SetHostCpus([m EXCEPT !.vm_cpus = @ \cup cpu])
unshield_cpu(m, cpu) == SetHostCpus([m EXCEPT !.vm_cpus = @ \ cpu])

\* Manager.vm_prepare: the guest is counted after the tunables were set
CpuPrepare(m, pinned) ==
    IF pinned = {} THEN m
    ELSE LET m1 == shield_cpu(m, pinned)
             m2 == IF m1.shielded_vms = 0 THEN SetAll(m1) ELSE m1
         IN IF m2.raised THEN m2 ELSE [m2 EXCEPT !.shielded_vms = @ + 1]

\* Manager.vm_release
CpuRelease(m, pinned) ==
    IF pinned = {} THEN m
    ELSE LET m1 == unshield_cpu(m, pinned)
             m2 == [m1 EXCEPT !.shielded_vms = @ - 1]
         IN IF m2.shielded_vms = 0 THEN ResetAll(m2) ELSE m2

\* the state of the plug-in after a task of it ran; a task that raised
\* stops the loop
CpuBecomes(m) ==
    /\ shielded_vms' = m.shielded_vms
    /\ vm_cpus' = m.vm_cpus
    /\ cpuset' = m.cpuset
    /\ sysctl' = m.sysctl
    /\ saved_values' = m.saved_values
    /\ running' = ~m.raised

----------------------------------------------------------------------------
(* plugins/gpu: what Manager.vm_prepare and vm_release do to the host for  *)
(* a PCI device that is the boot GPU, as the sequence of their calls.      *)

\* vm_prepare, the branch of _is_boot_gpu
PrepareOps ==
    <<"stop_display_manager", "unbind_vtcons", "unbind_framebuffer",
      "nodedev_detach", "unload", "load_vfio">>

\* vm_release, the branch of _is_boot_gpu
ReleaseOps ==
    <<"nodedev_reattach", "load", "bind_vtcons", "bind_framebuffer",
      "start_display_manager", "set_host()">>

NoOps == [prepare |-> <<>>, release |-> <<>>]

----------------------------------------------------------------------------
(* plugins/memory: Manager and HugePages.  mem holds the size of the pool  *)
(* of 1 GiB huge pages (nr_hugepages) and its free pages, the bytes of the *)
(* <memory> of the hugepage-backed guest, and, for the properties, the     *)
(* size of the pool before the last prepare and the value the last release *)
(* wrote.                                                                  *)

HUGEPAGES_2M == 2048
HUGEPAGES_1G == 1048576

\* HugePages._get_pages
GetPages(bytes, size) ==
    LET mem_in_kb == (bytes \div 1024) + ((bytes \div 1024) % 2)
    IN (mem_in_kb \div size) + ((mem_in_kb \div 1024) % 2)

\* Manager.get_1g_hugepages
get_1g_hugepages(size) ==
    LET mem_in_mb == (size \div 1024) \div 1024
    IN mem_in_mb \div 1024

\* Manager.get_2m_hugepages
get_2m_hugepages(size) ==
    LET mem_in_mb == (size \div 1024) \div 1024
        extra_memory == mem_in_mb % 2
    IN (mem_in_mb \div 2) + extra_memory

NoMem == [memory |-> 0, nr_hugepages |-> 0, free_hugepages |-> 0,
          pc |-> "defined", before |-> 0, written |-> 0]

\* the <memory> of the guest in bytes: none, less than a page, whole pages
\* and a page and a half
MemBytes == {0, 1, 1024, 1048576, 3145728, 1073741824, 1610612736, 2147483647}

\* the hosts a run starts on: any pool up to MaxPool pages, any part free
MemInputs ==
    {[NoMem EXCEPT !.memory = b, !.nr_hugepages = n, !.free_hugepages = f] :
        b \in MemBytes, n \in 0..MaxPool, f \in 0..MaxPool} \cap
    {m \in [memory : MemBytes, nr_hugepages : 0..MaxPool, free_hugepages : 0..MaxPool,
            pc : {"defined"}, before : {0}, written : {0}] :
        m.free_hugepages <= m.nr_hugepages}

----------------------------------------------------------------------------
(* What a bus call returned: the call, its guest and the value as the bus  *)
(* client sees it.                                                         *)

Returned(op, vm, val) == [op |-> op, vm |-> vm, val |-> val]
NoReturn == Returned("-", "-", "-")

(* The state after construction. *)

\* the state after construction, with n thread slots, but for the host's
\* memory
InitRest(n) ==
    /\ targets = <<HOST>>
    /\ target = HOST
    /\ current_host = HOST
    /\ released = FALSE
    /\ tasks = <<>>
    /\ running = TRUE
    /\ ret = NoReturn
    /\ signals = <<>>
    /\ domxml = [g \in Guests |-> NoXml]
    /\ devices = [s \in Sources |-> 0]
    /\ dev = [o \in 1..MaxObjs |-> NoDev]
    /\ symlinks = [p \in Targets \X Sources |-> 0]
    /\ thr = [t \in 1..n |-> NoThread]
    /\ injected = {}
    /\ held = {}
    /\ queue = <<>>
    /\ evlog = <<>>
    /\ wlog = <<>>
    /\ shielded_vms = 0
    /\ vm_cpus = {}
    /\ cpuset = [cgroup \in HOST_CGROUPS |-> ALL_CPUS]
    /\ pinned_cpus = <<>>
    /\ sysctl = BootValue
    /\ saved_values = <<>>
    /\ act = [a \in Actors |-> NoAct]
    /\ lock = Free
    /\ waiting = <<>>
    /\ gpu_ops = NoOps

\* the state after construction, on a host with no huge pages
InitWith(n) == InitRest(n) /\ mem = NoMem

Init == InitWith(MaxThreads)

----------------------------------------------------------------------------
(* The bus calls: each runs to its end on the service's loop.  libvirt     *)
(* waits for a hook to return, and the loop runs the tasks a call created  *)
(* before it reads the next message.                                       *)

BusReady == running /\ tasks = <<>>

\* vm_prepare: vm_name in self._targets
AlreadyManagedMutant(s, vm) == vm = s.target
AlreadyManaged(s, vm) == vm \in Range(s.targets)

\* Prepare
vm_prepare(vm, xml) ==
    /\ BusReady
    /\ IF AlreadyManaged(Svc, vm)
       THEN /\ ret' = Returned("Prepare", vm, "False")
            /\ signals' = <<>>
            /\ UNCHANGED <<svcVars, domxml>>
       ELSE IF ParseRaises(xml)
       THEN /\ ret' = Returned("Prepare", vm, "False")
            /\ signals' = <<>>
            /\ UNCHANGED <<svcVars, domxml>>
       ELSE /\ Len(targets) < MaxRing
            /\ targets' = Append(targets, vm)
            /\ tasks' = tasks \o CallPlugins(Plugins, "vm_prepare", vm, VirtualMachineConfig(xml))
            /\ domxml' = [domxml EXCEPT ![vm] = xml]
            /\ ret' = Returned("Prepare", vm, "True")
            /\ signals' = <<>>
            /\ UNCHANGED <<target, current_host, released, running>>
    /\ UNCHANGED <<devVars, keyVars>>
    /\ UNCHANGED <<cpuVars, lockVars, waiting, gpu_ops, mem>>

\* Release
vm_release(vm, xml) ==
    /\ BusReady
    /\ IF vm \notin Range(targets)
       THEN /\ ret' = Returned("Release", vm, "False")
            /\ signals' = <<>>
            /\ UNCHANGED <<svcVars, domxml>>
       ELSE IF ParseRaises(xml)
       THEN /\ ret' = Returned("Release", vm, RaisedError)
            /\ signals' = <<>>
            /\ UNCHANGED <<svcVars, domxml>>
       ELSE LET s == ReleaseGuest(Svc, vm, VirtualMachineConfig(xml))
            IN /\ SvcBecomes(s)
               /\ tasks' = tasks \o s.new
               /\ domxml' = [domxml EXCEPT ![vm] = NoXml]
               /\ ret' = Returned("Release", vm, "True")
               /\ UNCHANGED running
    /\ UNCHANGED <<devVars, keyVars>>
    /\ UNCHANGED <<cpuVars, lockVars, waiting, gpu_ops, mem>>

\* Toggle
toggle ==
    /\ BusReady
    /\ IF ToggleRaises(Svc)
       THEN /\ ret' = Returned("Toggle", "-", RaisedError)
            /\ signals' = <<>>
            /\ UNCHANGED svcVars
       ELSE LET s == Toggle(Svc)
            IN /\ SvcBecomes(s)
               /\ tasks' = tasks \o s.new
               /\ ret' = Returned("Toggle", "-", TargetGet(s))
               /\ UNCHANGED running
    /\ UNCHANGED <<domxml, devVars, keyVars>>
    /\ UNCHANGED <<cpuVars, lockVars, waiting, gpu_ops, mem>>

\* a bus client writes the Target property
target_set(val) ==
    /\ BusReady
    /\ LET s == TargetSet(Svc, val)
       IN /\ SvcBecomes(s)
          /\ tasks' = tasks \o s.new
          /\ ret' = Returned("Target", "-", val)
          /\ UNCHANGED running
    /\ UNCHANGED <<domxml, devVars, keyVars>>
    /\ UNCHANGED <<cpuVars, lockVars, waiting, gpu_ops, mem>>

\* SIGINT, SIGQUIT or SIGTERM: stop creates the plug-ins' stop tasks, last
\* plug-in first, and the loop is stopped in the same callback, so that it
\* ends with the iteration that ran the handler
signal_handler ==
    /\ running
    /\ tasks' = tasks \o CallPlugins(Reverse(Plugins), "stop", HOST, NoConfig)
    /\ running' = FALSE
    /\ ret' = NoReturn /\ signals' = <<>>
    /\ UNCHANGED <<targets, target, current_host, released, domxml, devVars, keyVars>>
    /\ UNCHANGED <<cpuVars, lockVars, waiting, gpu_ops, mem>>

----------------------------------------------------------------------------
(* The plug-in tasks, run first in first out on the service's loop.  A     *)
(* task that raises stops the loop (task.py: handle_exception).            *)

Head1 == Head(tasks)

\* devices.Manager.vm_prepare; present: the sources of the guest exist
devices_vm_prepare(present) ==
    /\ running /\ tasks # <<>>
    /\ Head1.plugin = "devices" /\ Head1.func = "vm_prepare"
    /\ LET D == ManagerPrepare(World, Head1.vm, Head1.config.hotkey, Head1.config.devices,
                               present)
       IN /\ ~D.over
          /\ WorldBecomes(D)
          /\ running' = ~D.raised
    /\ tasks' = Tail(tasks)
    /\ ret' = NoReturn /\ signals' = <<>>
    /\ UNCHANGED <<targets, target, current_host, released, domxml, keyVars>>
    /\ UNCHANGED <<cpuVars, lockVars, waiting, gpu_ops, mem>>

\* devices.Manager.vm_prepare suspends: a source of the guest is not in the
\* map and does not exist; the task sleeps in its retry loop and the loop
\* runs the other tasks and the bus calls
devices_vm_prepare_wait ==
    /\ running /\ tasks # <<>>
    /\ Head1.plugin = "devices" /\ Head1.func = "vm_prepare"
    /\ \E src \in Head1.config.devices : devices[src] = 0
    /\ Len(waiting) < MaxWaiting
    /\ waiting' = Append(waiting, Head1)
    /\ tasks' = Tail(tasks)
    /\ ret' = NoReturn /\ signals' = <<>>
    /\ UNCHANGED <<targets, target, current_host, released, running, domxml,
                   devVars, keyVars>>
    /\ UNCHANGED <<cpuVars, lockVars, gpu_ops, mem>>

\* the retry loop makes the object and assigns the map entry without
\* looking at the map again
Retry(D, srcs) ==
    [D EXCEPT !.devices = [src \in Sources |-> IF src \in srcs THEN 0 ELSE @[src]]]

\* a suspended devices.Manager.vm_prepare wakes up: the source exists by
\* now and the task goes on to add the guest, or wait_duration is over and
\* the IOError is raised again
devices_vm_prepare_resume(i, present) ==
    /\ running
    /\ i \in 1..Len(waiting)
    /\ LET w == waiting[i]
           D == ManagerPrepare(Retry(World, w.config.devices), w.vm, w.config.hotkey,
                               w.config.devices, present)
       IN /\ ~D.over
          /\ WorldBecomes(D)
          /\ running' = ~D.raised
    /\ waiting' = SubSeq(waiting, 1, i - 1) \o SubSeq(waiting, i + 1, Len(waiting))
    /\ ret' = NoReturn /\ signals' = <<>>
    /\ UNCHANGED <<targets, target, current_host, released, tasks, domxml, keyVars>>
    /\ UNCHANGED <<cpuVars, lockVars, gpu_ops, mem>>

\* devices.Manager.vm_release
devices_vm_release ==
    /\ running /\ tasks # <<>>
    /\ Head1.plugin = "devices" /\ Head1.func = "vm_release"
    /\ LET D == ManagerRelease(World, Head1.vm, Head1.config.hotkey, Head1.config.devices,
                               vm_count(targets))
       IN /\ WorldBecomes(Collect(D))
          /\ running' = ~D.raised
    /\ tasks' = Tail(tasks)
    /\ ret' = NoReturn /\ signals' = <<>>
    /\ UNCHANGED <<targets, target, current_host, released, domxml, keyVars>>
    /\ UNCHANGED <<cpuVars, lockVars, waiting, gpu_ops, mem>>

\* devices.Manager.target_changed; can_grab: the sink is not grabbed by QEMU
devices_target_changed ==
    /\ running /\ tasks # <<>>
    /\ Head1.plugin = "devices" /\ Head1.func = "target_changed"
    /\ \E can_grab \in BOOLEAN :
          WorldBecomes(TargetChanged(World, TargetGet(Svc), can_grab, Sources))
    /\ tasks' = Tail(tasks)
    /\ ret' = NoReturn /\ signals' = <<>>
    /\ UNCHANGED <<targets, target, current_host, released, running, domxml, keyVars>>
    /\ UNCHANGED <<cpuVars, lockVars, waiting, gpu_ops, mem>>

\* gpu.Manager.vm_prepare: the boot GPU is taken from the host step by
\* step; set_host(vm_name) at the first PCI device that is not the boot GPU
gpu_vm_prepare ==
    /\ running /\ tasks # <<>>
    /\ Head1.plugin = "gpu" /\ Head1.func = "vm_prepare"
    /\ LET s == IF "other" \in Head1.config.pci THEN SetHost(Svc, Head1.vm) ELSE Svc
       IN /\ SvcBecomes(s)
          /\ tasks' = Tail(tasks) \o s.new
    /\ gpu_ops' = IF "boot" \in Head1.config.pci
                  THEN [prepare |-> PrepareOps, release |-> <<>>]
                  ELSE gpu_ops
    /\ ret' = NoReturn
    /\ UNCHANGED <<running, domxml, devVars, keyVars>>
    /\ UNCHANGED <<cpuVars, lockVars, waiting, mem>>

\* gpu.Manager.vm_release: the boot GPU is given back step by step, then
\* set_host(), at the first PCI device that is the boot GPU
gpu_vm_release ==
    /\ running /\ tasks # <<>>
    /\ Head1.plugin = "gpu" /\ Head1.func = "vm_release"
    /\ LET s == IF "boot" \in Head1.config.pci THEN SetHost(Svc, HOST) ELSE Svc
       IN /\ Len(s.targets) <= MaxRing
          /\ SvcBecomes(s)
          /\ tasks' = Tail(tasks) \o s.new
    /\ gpu_ops' = IF "boot" \in Head1.config.pci
                  THEN [gpu_ops EXCEPT !.release = ReleaseOps]
                  ELSE gpu_ops
    /\ ret' = NoReturn
    /\ UNCHANGED <<running, domxml, devVars, keyVars>>
    /\ UNCHANGED <<cpuVars, lockVars, waiting, mem>>

----------------------------------------------------------------------------
(* The replicator thread of a device (input.py: start, stop). *)

\* create_tasks: the thread records its grab and replicate tasks; the
\* replicate task returns at once when the source is not open
create_tasks(t) ==
    /\ thr[t].pc = "spawned"
    /\ LET o == thr[t].obj
       IN /\ dev' = [dev EXCEPT ![o].grab_task = t, ![o].replicate_task = t]
          /\ thr' = [thr EXCEPT ![t].pc = IF dev[o].source_open THEN "loop" ELSE "idle"]
    /\ ret' = NoReturn /\ signals' = <<>>
    /\ UNCHANGED <<svcVars, domxml, devices, symlinks, injected, keyVars>>
    /\ UNCHANGED <<cpuVars, lockVars, waiting, gpu_ops, mem>>

\* every sink of the object destroyed, one after another
RECURSIVE DestroyAll(_, _, _)
DestroyAll(D, o, keys) ==
    IF keys = {} THEN D
    ELSE LET key == CHOOSE k \in keys : TRUE
         IN DestroyAll(DestroyDevice(D, o, key), o, keys \ {key})

\* stop.destroy, run on the thread's loop: the recorded tasks are cancelled
\* (their handlers clear the record), every sink is destroyed, the source
\* is ungrabbed and closed
destroy(t) ==
    /\ thr[t].destroy
    /\ thr[t].pc \in {"loop", "sleep", "idle"}
    /\ LET o == thr[t].obj
           c == dev[o].replicate_task
           D1 == DestroyAll(World, o, dev[o].sinks)
           D2 == [D1 EXCEPT !.dev[o].source_open = FALSE,
                            !.dev[o].grab_task = 0,
                            !.dev[o].replicate_task = 0,
                            !.thr[t].destroy = FALSE]
           D3 == IF c # 0 THEN [D2 EXCEPT !.thr[c] = NoThread] ELSE D2
       IN WorldBecomes(Collect(D3))
    /\ ret' = NoReturn /\ signals' = <<>>
    /\ UNCHANGED <<svcVars, domxml, keyVars>>
    /\ UNCHANGED <<cpuVars, lockVars, waiting, gpu_ops, mem>>

----------------------------------------------------------------------------
(* The source device and the replicate task (input.py: _replicate).  The   *)
(* kernel queues an event for the open device and reports the keys held at *)
(* the time it is asked (active_keys), which may be ahead of the events    *)
(* the task has read.                                                      *)

Event(id, code, value) == [id |-> id, code |-> code, value |-> value]

SourceOpen == \E o \in 1..MaxObjs : dev[o].source_open

\* a key of the source goes down (1) or up (0)
kernel_key(k, v, bound) ==
    /\ SourceOpen
    /\ Len(evlog) < bound
    /\ IF v = 1 THEN k \notin held ELSE k \in held
    /\ held' = IF v = 1 THEN held \cup {k} ELSE held \ {k}
    /\ queue' = Append(queue, Event(Len(evlog) + 1, k, v))
    /\ evlog' = Append(evlog, Event(Len(evlog) + 1, k, v))
    /\ ret' = NoReturn /\ signals' = <<>>
    /\ UNCHANGED <<wlog, svcVars, domxml, devVars>>
    /\ UNCHANGED <<cpuVars, lockVars, waiting, gpu_ops, mem>>

\* _target: the sink of this device for the service's target, if any
HasSink(o, tgt) == tgt \in dev[o].sinks

\* the arming conditions of handle_release, handle_toggle, handle_hotkeys
ArmsRelease(e, active) ==
    e.value = 1 /\ hotkeys_release # NoHotkey /\ active = hotkeys_release
ArmsToggle(e, active) ==
    e.value = 1 /\ hotkeys_toggle # NoHotkey /\ active = hotkeys_toggle
ArmsHotkey(o, e, active) ==
    e.value = 1 /\ active \in Chords /\ dev[o].hotkeys[active] # NoEntry

\* one iteration of the read loop on thread t, with cur the key of the sink
\* that self._target gave: the event is written to the sink of the current
\* target; then the three detectors run on it, each arming, or firing (syn,
\* then sleep for the delay) when armed and no key is held
ReadEvent(t, cur) ==
    /\ queue # <<>>
    /\ LET o == thr[t].obj
           e == Head(queue)
           has == HasSink(o, cur)
           active == held
           fire == {d \in {"release", "toggle", "hotkeys"} :
                       /\ has /\ active = {}
                       /\ \/ d = "release" /\ ~ArmsRelease(e, active) /\ thr[t].is_release
                          \/ d = "toggle" /\ ~ArmsToggle(e, active) /\ thr[t].is_toggle
                          \/ d = "hotkeys" /\ ~ArmsHotkey(o, e, active)
                                           /\ thr[t].hotkey_triggered # NoHotkey}
       IN /\ dev[o].source_open
          /\ wlog' = IF has THEN Append(wlog, [id |-> e.id, obj |-> o, key |-> cur])
                     ELSE wlog
          /\ thr' = IF ~has THEN thr
                    ELSE [thr EXCEPT
                            ![t].is_release = @ \/ ArmsRelease(e, active),
                            ![t].is_toggle = @ \/ ArmsToggle(e, active),
                            ![t].hotkey_triggered =
                                IF ArmsHotkey(o, e, active) THEN active ELSE @,
                            ![t].firing = fire,
                            ![t].sink = NoEntry,
                            ![t].pc = IF fire # {} THEN "sleep" ELSE "loop"]
    /\ queue' = Tail(queue)
    /\ ret' = NoReturn /\ signals' = <<>>
    /\ UNCHANGED <<held, evlog, svcVars, domxml, devices, dev, symlinks, injected>>
    /\ UNCHANGED <<cpuVars, lockVars, waiting, gpu_ops, mem>>

\* one iteration of the read loop, with no other thread running between
\* its statements
replicate(t) ==
    /\ thr[t].pc = "loop"
    /\ ReadEvent(t, TargetGet(Svc))

\* the iteration statement by statement: self._target gave a sink for the
\* event at the head of the queue, and write_event has not written yet
replicate_check(t) ==
    /\ thr[t].pc = "loop"
    /\ queue # <<>>
    /\ dev[thr[t].obj].source_open
    /\ HasSink(thr[t].obj, TargetGet(Svc))
    /\ thr' = [thr EXCEPT ![t].pc = "write", ![t].sink = TargetGet(Svc)]
    /\ ret' = NoReturn /\ signals' = <<>>
    /\ UNCHANGED <<svcVars, domxml, devices, dev, symlinks, injected, keyVars>>
    /\ UNCHANGED <<cpuVars, lockVars, waiting, gpu_ops, mem>>

\* write_event on the sink the thread got: a sink that _destroy_device
\* closed in the meantime raises OSError, which nothing in the read loop
\* catches; the task ends and handle_exception stops the thread's loop
replicate_write(t) ==
    /\ thr[t].pc = "write"
    /\ IF HasSink(thr[t].obj, thr[t].sink) THEN ReadEvent(t, thr[t].sink)
       ELSE /\ thr' = [thr EXCEPT ![t].pc = "crashed", ![t].sink = NoEntry]
            /\ queue' = Tail(queue)
            /\ ret' = NoReturn /\ signals' = <<>>
            /\ UNCHANGED <<held, evlog, wlog, svcVars, domxml, devices, dev, symlinks,
                           injected>>
            /\ UNCHANGED <<cpuVars, lockVars, waiting, gpu_ops, mem>>

\* the delay is over: the detectors that fired act, in the order release,
\* toggle, hotkeys.  toggle and the lookup of the hotkey may raise; the
\* tasks target_changed creates run on this thread's loop before the next
\* event is read.  A raised error ends the thread's loop.
debounce(t) ==
    /\ thr[t].pc = "sleep"
    /\ LET o == thr[t].obj
           f == thr[t].firing
           s1 == IF "release" \in f THEN ReleasedSet(Svc, ~released) ELSE Svc
           raise2 == "toggle" \in f /\ ToggleRaises(s1)
           s2 == IF "toggle" \in f /\ ~raise2 THEN Toggle(s1) ELSE s1
           raise3 == "hotkeys" \in f /\ dev[o].hotkeys[thr[t].hotkey_triggered] = NoEntry
           s3 == IF "hotkeys" \in f /\ ~raise3
                 THEN TargetSet(s2, dev[o].hotkeys[thr[t].hotkey_triggered]) ELSE s2
           T == [World EXCEPT
                   !.thr[t].is_release = IF "release" \in f THEN FALSE ELSE @,
                   !.thr[t].is_toggle = IF "toggle" \in f THEN FALSE ELSE @,
                   !.thr[t].hotkey_triggered =
                       IF "hotkeys" \in f /\ ~raise3 THEN NoHotkey ELSE @,
                   !.thr[t].firing = {},
                   !.thr[t].pc = IF raise2 \/ raise3 THEN "crashed" ELSE "loop"]
       IN /\ SvcBecomes(s3)
          /\ IF s3.new = <<>> THEN WorldBecomes(T)
             ELSE \E can_grab \in BOOLEAN :
                     WorldBecomes(TargetChanged(T, TargetGet(s3), can_grab, Sources))
    /\ ret' = NoReturn
    /\ UNCHANGED <<tasks, running, domxml, keyVars>>
    /\ UNCHANGED <<cpuVars, lockVars, waiting, gpu_ops, mem>>

----------------------------------------------------------------------------
(* The cpu plug-in's tasks.  The service creates vm_prepare for a guest it *)
(* just added to the ring and vm_release for a guest it just removed, with *)
(* the pinned CPUs of the guest's domain XML.                              *)

Unpin(f, vm) == [g \in DOMAIN f \ {vm} |-> f[g]]

cpu_vm_prepare(vm, pinned) ==
    /\ running
    /\ vm \notin DOMAIN pinned_cpus
    /\ CpuBecomes(CpuPrepare(CpuManager, pinned))
    /\ pinned_cpus' = [g \in DOMAIN pinned_cpus \cup {vm} |->
                          IF g = vm THEN pinned ELSE pinned_cpus[g]]
    /\ UNCHANGED <<targets, target, current_host, released, tasks,
                   outVars, domxml, devVars, keyVars, lockVars, waiting, gpu_ops, mem>>

cpu_vm_release(vm) ==
    /\ running
    /\ vm \in DOMAIN pinned_cpus
    /\ CpuBecomes(CpuRelease(CpuManager, pinned_cpus[vm]))
    /\ pinned_cpus' = Unpin(pinned_cpus, vm)
    /\ UNCHANGED <<targets, target, current_host, released, tasks,
                   outVars, domxml, devVars, keyVars, lockVars, waiting, gpu_ops, mem>>

\* a guest shuts down after the loop was stopped: the hook's Release call
\* is answered by nobody
guest_stopped(vm) ==
    /\ ~running
    /\ vm \in DOMAIN pinned_cpus
    /\ pinned_cpus' = Unpin(pinned_cpus, vm)
    /\ UNCHANGED <<svcVars, outVars, domxml, devVars, keyVars,
                   shielded_vms, vm_cpus, cpuset, sysctl, saved_values, lockVars, waiting, gpu_ops, mem>>

----------------------------------------------------------------------------
(* The memory plug-in's tasks, for a hugepage-backed guest.  The kernel    *)
(* grows the pool by as many pages as it finds room for, which may be      *)
(* fewer than were asked for, and refuses a negative size.                 *)

\* Manager.vm_prepare: nothing is written when enough pages are free
memory_vm_prepare ==
    /\ running
    /\ mem.pc \in {"defined", "released"}
    /\ LET hugepages == get_1g_hugepages(mem.memory)
       IN IF mem.free_hugepages >= hugepages
          THEN mem' = [mem EXCEPT !.pc = "prepared", !.before = mem.nr_hugepages,
                                  !.written = 0]
          ELSE \E granted \in 0..hugepages :
                  /\ mem.nr_hugepages + granted <= MaxPool + 1
                  /\ mem' = [mem EXCEPT !.pc = "prepared",
                                        !.before = mem.nr_hugepages,
                                        !.written = 0,
                                        !.nr_hugepages = @ + granted,
                                        !.free_hugepages = @ + granted]
    /\ UNCHANGED <<svcVars, outVars, domxml, devVars, keyVars, cpuVars, lockVars,
                   waiting, gpu_ops>>

\* Manager.vm_release: total - hugepages is written; the kernel gives up
\* the pages of the pool that are free, down to the size written
memory_vm_release ==
    /\ running
    /\ mem.pc = "prepared"
    /\ LET hugepages == get_1g_hugepages(mem.memory)
           value == mem.nr_hugepages - hugepages
           freed == IF mem.free_hugepages < hugepages THEN mem.free_hugepages
                    ELSE hugepages
       IN IF value < 0
          THEN /\ mem' = [mem EXCEPT !.pc = "released", !.written = value]
               /\ running' = FALSE
          ELSE /\ mem' = [mem EXCEPT !.pc = "released", !.written = value,
                                     !.nr_hugepages = @ - freed,
                                     !.free_hugepages = @ - freed]
               /\ UNCHANGED running
    /\ UNCHANGED <<targets, target, current_host, released, tasks, outVars, domxml,
                   devVars, keyVars, cpuVars, lockVars, waiting, gpu_ops>>

----------------------------------------------------------------------------
(* The focus state statement by statement.  The service's loop and a       *)
(* replicator thread both call the target setter, the released setter and  *)
(* the target getter (input.py: _replicate, _target); a thread can be      *)
(* switched out between any two statements.  tgt: the _target a reading    *)
(* thread got; seen: the values of _released that were in force together   *)
(* with that _target, outside the two assignments of a setter, since the   *)
(* read began; torn: the _released it then got is none of them.            *)

\* the display name of a target (service.py:184)
Display(t) == IF t # HOST THEN t ELSE HostDisplay

\* the value the setter resolves a request to: HOST stands for the host
\* override
Resolved(v) == IF v # HOST THEN v ELSE current_host

\* a setter wrote _released and has not written _target yet
MidUpdate == \E a \in Actors : act[a].pc = "target"
StablePair ==
    IF MidUpdate THEN <<target, act[CHOOSE a \in Actors : act[a].pc = "target"].was>>
    ELSE <<target, released>>

\* the threads that are reading take note of a new pair
Sees(A, pair) ==
    [a \in Actors |-> IF A[a].pc = "read" /\ A[a].tgt = pair[1]
                      THEN [A[a] EXCEPT !.seen = @ \cup {pair[2]}]
                      ELSE A[a]]

\* target (setter): val = val or self._current_host; if val == self._target
target_check(a, v) ==
    /\ act[a].pc = "idle"
    /\ a = "loop" => BusReady
    /\ act' = IF Resolved(v) = target THEN act
              ELSE [act EXCEPT ![a].pc = "lock", ![a].val = Resolved(v)]
    /\ ret' = NoReturn /\ signals' = <<>>
    /\ UNCHANGED <<svcVars, domxml, devVars, keyVars, cpuVars, lock, waiting, gpu_ops, mem>>

\* with self._lock
target_lock(a) ==
    /\ act[a].pc = "lock"
    /\ lock = Free
    /\ lock' = a
    /\ act' = [act EXCEPT ![a].pc = "released"]
    /\ ret' = NoReturn /\ signals' = <<>>
    /\ UNCHANGED <<svcVars, domxml, devVars, keyVars, cpuVars, waiting, gpu_ops, mem>>

\* self._released = False
target_releasedMutant(a) ==
    /\ act[a].pc = "released"
    /\ act' = [act EXCEPT ![a].pc = "target", ![a].was = released]
    /\ ret' = NoReturn /\ signals' = <<>>
    /\ UNCHANGED <<targets, target, current_host, released, tasks, running,
                   domxml, devVars, keyVars, cpuVars, lock, waiting, gpu_ops, mem>>
target_released(a) ==
    /\ act[a].pc = "released"
    /\ released' = FALSE
    /\ act' = [act EXCEPT ![a].pc = "target", ![a].was = released]
    /\ ret' = NoReturn /\ signals' = <<>>
    /\ UNCHANGED <<targets, target, current_host, tasks, running,
                   domxml, devVars, keyVars, cpuVars, lock, waiting, gpu_ops, mem>>

\* self._target = val
target_assign(a) ==
    /\ act[a].pc = "target"
    /\ target' = act[a].val
    /\ act' = Sees([act EXCEPT ![a].pc = "emit"], <<act[a].val, released>>)
    /\ ret' = NoReturn /\ signals' = <<>>
    /\ UNCHANGED <<targets, current_host, released, tasks, running,
                   domxml, devVars, keyVars, cpuVars, lock, waiting, gpu_ops, mem>>

\* the target_changed tasks and the property change; the lock is released.
\* The tasks are created on the loop of the calling thread.
target_emit(a) ==
    /\ act[a].pc = "emit"
    /\ tasks' = IF a = "loop"
                THEN tasks \o CallPlugins(Plugins, "target_changed", act[a].val, NoConfig)
                ELSE tasks
    /\ signals' = <<Display(act[a].val)>>
    /\ lock' = Free
    /\ act' = [act EXCEPT ![a].pc = "idle", ![a].val = HOST, ![a].was = FALSE]
    /\ ret' = NoReturn
    /\ UNCHANGED <<targets, target, current_host, released, running,
                   domxml, devVars, keyVars, cpuVars, waiting, gpu_ops, mem>>

\* released (setter), called by handle_release with not self.released: one
\* assignment, made with the lock held
released_toggle(a) ==
    /\ a # "loop"
    /\ act[a].pc = "idle"
    /\ lock = Free
    /\ released' = ~released
    /\ act' = Sees(act, <<target, ~released>>)
    /\ ret' = NoReturn /\ signals' = <<>>
    /\ UNCHANGED <<targets, target, current_host, tasks, running,
                   domxml, devVars, keyVars, cpuVars, lock, waiting, gpu_ops, mem>>

\* target (getter): self._target is read
read_target(a) ==
    /\ act[a].pc = "idle"
    /\ act' = [act EXCEPT ![a].pc = "read", ![a].tgt = target,
                          ![a].seen = {StablePair[2]}]
    /\ ret' = NoReturn /\ signals' = <<>>
    /\ UNCHANGED <<svcVars, domxml, devVars, keyVars, cpuVars, lock, waiting, gpu_ops, mem>>

\* target (getter): self.released is read
read_released(a) ==
    /\ act[a].pc = "read"
    /\ act' = [act EXCEPT ![a].pc = "idle", ![a].tgt = HOST, ![a].seen = {},
                          ![a].torn = released \notin act[a].seen]
    /\ ret' = NoReturn /\ signals' = <<>>
    /\ UNCHANGED <<svcVars, domxml, devVars, keyVars, cpuVars, lock, waiting, gpu_ops, mem>>

----------------------------------------------------------------------------
(* Spec: the life cycle of the guests and the focus, with no key pressed. *)

Next ==
    \/ \E vm \in Guests, xml \in XmlDocs : vm_prepare(vm, xml)
    \/ \E vm \in Guests : vm_release(vm, domxml[vm])
    \/ \E vm \in Guests : vm_release(vm, XmlMalformed)
    \/ signal_handler
    \/ toggle
    \/ \E val \in Targets : target_set(val)
    \/ \E present \in BOOLEAN : devices_vm_prepare(present)
    \/ devices_vm_release
    \/ devices_target_changed
    \/ gpu_vm_prepare
    \/ gpu_vm_release
    \/ \E t \in 1..MaxThreads : create_tasks(t)
    \/ \E t \in 1..MaxThreads : destroy(t)

Spec == Init /\ [][Next]_vars

(* SpecFocus: guests come and go while the release chord is pressed; b    *)
(* takes the host's place.                                                 *)

FocusXml == [a |-> {XmlKbd}, b |-> {XmlOtherPciOnly}]

NextFocus ==
    \/ \E vm \in Guests :
          \E xml \in (IF vm \in Range(targets) THEN XmlDocs ELSE FocusXml[vm]) :
             vm_prepare(vm, xml)
    \/ \E vm \in Guests : vm_release(vm, domxml[vm])
    \/ toggle
    \/ devices_vm_prepare(TRUE)
    \/ devices_vm_release
    \/ devices_target_changed
    \/ gpu_vm_prepare
    \/ gpu_vm_release
    \/ \E t \in 1..MaxThreads : create_tasks(t)
    \/ \E t \in 1..MaxThreads : destroy(t)
    \/ \E k \in hotkeys_release, v \in {0, 1} : kernel_key(k, v, MaxFocusEvents)
    \/ \E t \in 1..MaxThreads : replicate(t)
    \/ \E t \in 1..MaxThreads : debounce(t)

SpecFocus == Init /\ [][NextFocus]_vars

(* SpecPass: events pass through to the sinks: a uses the source, b takes  *)
(* the host's place and does not use it; the release chord and a key of    *)
(* no chord are pressed.                                                   *)

PassXml == [a |-> {XmlKbd}, b |-> {XmlOtherPciOnly}]
PassPressed == hotkeys_release \cup {KEY_A}

NextPass ==
    \/ \E vm \in Guests : \E xml \in PassXml[vm] : vm_prepare(vm, xml)
    \/ toggle
    \/ devices_vm_prepare(TRUE)
    \/ devices_target_changed
    \/ gpu_vm_prepare
    \/ \E t \in 1..MaxThreads : create_tasks(t)
    \/ \E k \in PassPressed, v \in {0, 1} : kernel_key(k, v, MaxEvents)
    \/ \E t \in 1..MaxThreads : replicate(t)
    \/ \E t \in 1..MaxThreads : debounce(t)

SpecPass == Init /\ [][NextPass]_vars

(* SpecSet: the Target property is written while guests are prepared and   *)
(* the release chord is pressed; b takes the host's place.                 *)

NextSet ==
    \/ \E vm \in Guests : \E xml \in PassXml[vm] : vm_prepare(vm, xml)
    \/ toggle
    \/ \E val \in Targets : target_set(val)
    \/ devices_vm_prepare(TRUE)
    \/ devices_target_changed
    \/ gpu_vm_prepare
    \/ \E t \in 1..MaxThreads : create_tasks(t)
    \/ \E k \in hotkeys_release, v \in {0, 1} : kernel_key(k, v, MaxFocusEvents)
    \/ \E t \in 1..MaxThreads : replicate(t)
    \/ \E t \in 1..MaxThreads : debounce(t)

SpecSet == Init /\ [][NextSet]_vars

(* SpecCpu: the cpu plug-in is enabled and guests with any pinned CPUs     *)
(* come and go.                                                            *)

NextCpu ==
    \/ \E vm \in Guests, pinned \in SUBSET ALL_CPUS : cpu_vm_prepare(vm, pinned)
    \/ \E vm \in Guests : cpu_vm_release(vm)
    \/ \E vm \in Guests : guest_stopped(vm)

SpecCpu == Init /\ [][NextCpu]_vars

(* SpecRace: two guests that use the same source come and go while the    *)
(* threads of the device start; there is room for a second thread.         *)

NextRace ==
    \/ \E vm \in Guests : vm_prepare(vm, XmlKbd)
    \/ \E vm \in Guests : vm_release(vm, domxml[vm])
    \/ devices_vm_prepare(TRUE)
    \/ devices_vm_release
    \/ gpu_vm_prepare
    \/ gpu_vm_release
    \/ \E t \in 1..MaxRaceThreads : create_tasks(t)
    \/ \E t \in 1..MaxRaceThreads : destroy(t)

SpecRace == InitWith(MaxRaceThreads) /\ [][NextRace]_vars

(* SpecLock: the loop and a replicator thread assign the target, toggle   *)
(* released and read the focus, statement by statement.                    *)

NextLock ==
    \/ \E a \in Actors, v \in Targets : target_check(a, v)
    \/ \E a \in Actors : target_lock(a)
    \/ \E a \in Actors : target_released(a)
    \/ \E a \in Actors : target_assign(a)
    \/ \E a \in Actors : target_emit(a)
    \/ \E a \in Actors : released_toggle(a)
    \/ \E a \in Actors : read_target(a)
    \/ \E a \in Actors : read_released(a)
    \/ devices_target_changed

SpecLock == Init /\ [][NextLock]_vars

(* SpecKeys: guests are prepared and the keys of the toggle chord and of   *)
(* a guest's hotkey are pressed.                                           *)

KeysXml == [a |-> {XmlKbd, XmlKbdHotkey}, b |-> {XmlPlain}]
KeysPressed == hotkeys_toggle \cup GuestHotkey

NextKeys ==
    \/ \E vm \in Guests : \E xml \in KeysXml[vm] : vm_prepare(vm, xml)
    \/ toggle
    \/ devices_vm_prepare(TRUE)
    \/ devices_target_changed
    \/ gpu_vm_prepare
    \/ \E t \in 1..MaxThreads : create_tasks(t)
    \/ \E k \in KeysPressed, v \in {0, 1} : kernel_key(k, v, MaxKeyEvents)
    \/ \E t \in 1..MaxThreads : replicate(t)
    \/ \E t \in 1..MaxThreads : debounce(t)

SpecKeys == Init /\ [][NextKeys]_vars

(* SpecDetach: guests that use the same source, with the same hotkey or    *)
(* with none, come and go while the keys of the hotkey are pressed.        *)

DetachXml == [a |-> {XmlKbdHotkey}, b |-> {XmlKbd, XmlKbdHotkey}]

NextDetach ==
    \/ \E vm \in Guests : \E xml \in DetachXml[vm] : vm_prepare(vm, xml)
    \/ \E vm \in Guests : vm_release(vm, domxml[vm])
    \/ devices_vm_prepare(TRUE)
    \/ devices_vm_release
    \/ devices_target_changed
    \/ gpu_vm_prepare
    \/ gpu_vm_release
    \/ \E t \in 1..MaxThreads : create_tasks(t)
    \/ \E t \in 1..MaxThreads : destroy(t)
    \/ \E k \in GuestHotkey, v \in {0, 1} : kernel_key(k, v, MaxDetachEvents)
    \/ \E t \in 1..MaxThreads : replicate(t)
    \/ \E t \in 1..MaxThreads : debounce(t)

SpecDetach == Init /\ [][NextDetach]_vars

(* SpecWrite: a guest that uses the source comes and goes while a key of   *)
(* no chord is pressed and the read loop runs statement by statement.      *)

NextWrite ==
    \/ \E vm \in Guests : vm_prepare(vm, XmlKbd)
    \/ \E vm \in Guests : vm_release(vm, domxml[vm])
    \/ toggle
    \/ devices_vm_prepare(TRUE)
    \/ devices_vm_release
    \/ devices_target_changed
    \/ gpu_vm_prepare
    \/ gpu_vm_release
    \/ \E t \in 1..MaxThreads : create_tasks(t)
    \/ \E t \in 1..MaxThreads : destroy(t)
    \/ \E v \in {0, 1} : kernel_key(KEY_A, v, MaxDetachEvents)
    \/ \E t \in 1..MaxThreads : replicate(t)
    \/ \E t \in 1..MaxThreads : replicate_check(t)
    \/ \E t \in 1..MaxThreads : replicate_write(t)

SpecWrite == Init /\ [][NextWrite]_vars

(* SpecOrder: guests come and go while the source of their input device   *)
(* is missing for a while; a guest may pass a PCI device through.          *)

OrderXml == [a |-> {XmlOtherPci}, b |-> {XmlKbd}]

NextOrder ==
    \/ \E vm \in Guests : \E xml \in OrderXml[vm] : vm_prepare(vm, xml)
    \/ \E vm \in Guests : vm_release(vm, domxml[vm])
    \/ devices_vm_prepare(TRUE)
    \/ devices_vm_prepare_wait
    \/ \E i \in 1..MaxWaiting, present \in BOOLEAN : devices_vm_prepare_resume(i, present)
    \/ devices_vm_release
    \/ devices_target_changed
    \/ gpu_vm_prepare
    \/ gpu_vm_release
    \/ \E t \in 1..MaxThreads : create_tasks(t)
    \/ \E t \in 1..MaxThreads : destroy(t)

SpecOrder == Init /\ [][NextOrder]_vars

(* SpecMem: the memory plug-in is enabled; a hugepage-backed guest with    *)
(* any <memory> comes and goes on a host with any pool of huge pages.      *)

NextMem ==
    \/ memory_vm_prepare
    \/ memory_vm_release

InitMem == InitRest(MaxThreads) /\ mem \in MemInputs

SpecMem == InitMem /\ [][NextMem]_vars

----------------------------------------------------------------------------
(* The properties. *)

\* C1 (I3): in every reachable state, whatever bus calls, set_host calls,
\* chords and writes to the Target property came before, the active target
\* is an element of the ring.
C1_ActiveTargetInRing == target \in Range(targets)

\* the guests of the ring, and the symlinks the service made that exist
LiveGuests == Range(targets) \cap Guests
OwnedLinks == {p \in Targets \X Sources : symlinks[p] # 0}
ExpectedLinks ==
    {p \in LiveGuests \X Sources : p[2] \in VirtualMachineConfig(domxml[p[1]]).devices}
    \cup {p \in {HOST} \X Sources :
              \E g \in LiveGuests : p[2] \in VirtualMachineConfig(domxml[g]).devices}

\* no work is pending: the service's loop is idle, every thread has
\* recorded its tasks and run the teardown posted to it
Quiescent ==
    /\ running /\ tasks = <<>>
    /\ \A t \in 1..MaxThreads : thr[t].pc # "spawned" /\ ~thr[t].destroy

\* C2 (P1): once all pending work has run, the symlinks of the service are
\* exactly those the live guests expect: <guest>-<source> for every source a
\* live guest uses, host-<source> for every source with a live guest.
C2_SymlinksAsExpected == Quiescent => OwnedLinks = ExpectedLinks

\* the focus of the specification: host_override if released, otherwise
\* active_target or host_override
Focus == IF released THEN current_host
         ELSE IF target # HOST THEN target ELSE current_host

\* no chord is in progress on any thread
Calm ==
    \A t \in 1..MaxThreads :
        /\ ~thr[t].is_release /\ ~thr[t].is_toggle
        /\ thr[t].hotkey_triggered = NoHotkey /\ thr[t].firing = {}

\* an event is read from the source while no chord is in progress
CalmRead == queue # <<>> /\ queue' = Tail(queue) /\ Calm /\ Calm'

\* every write so far is of an earlier event than e
InOrder(e) == \A i \in 1..Len(wlog) : wlog[i].id < e.id

\* C3 (P2) as stated: every event read without chord activity is written
\* exactly once, to the sink of the focus, after the writes of all earlier
\* events.
C3_ExactlyOneWrite ==
    [][CalmRead =>
        \E t \in 1..MaxThreads :
            /\ thr[t].pc = "loop"
            /\ InOrder(Head(queue))
            /\ wlog' = Append(wlog, [id |-> Head(queue).id, obj |-> thr[t].obj,
                                     key |-> Focus])]_vars

\* C3 (P2) as the code has it: every event read without chord activity is
\* written exactly once to the sink of the focus, after the writes of all
\* earlier events, when the device has a sink for the focus, and is written
\* to no sink when it has none.
C3_OneWriteIfSink ==
    [][CalmRead =>
        \E t \in 1..MaxThreads :
            /\ thr[t].pc = "loop"
            /\ IF Focus \in dev[thr[t].obj].sinks
               THEN /\ InOrder(Head(queue))
                    /\ wlog' = Append(wlog, [id |-> Head(queue).id, obj |-> thr[t].obj,
                                             key |-> Focus])
               ELSE wlog' = wlog]_vars

\* a key of no chord was read, while released and while a is the active
\* target, and written to the sink of the host
C3_Witness ==
    /\ released /\ target = "a" /\ Calm
    /\ wlog # <<>>
    /\ wlog[Len(wlog)].key = HOST
    /\ evlog[wlog[Len(wlog)].id].code = KEY_A
    /\ wlog[Len(wlog)].id = Len(evlog) /\ queue = <<>>

\* the keys of the chords that fired on thread t
TriggeringKeys(t) ==
    (IF "release" \in thr[t].firing THEN hotkeys_release ELSE {})
    \cup (IF "toggle" \in thr[t].firing THEN hotkeys_toggle ELSE {})
    \cup (IF "hotkeys" \in thr[t].firing THEN thr[t].hotkey_triggered ELSE {})

\* a key-up of k is unread whose key-down was read
PendingKeyUp(k) ==
    \E i \in 1..Len(queue) :
        /\ queue[i].code = k /\ queue[i].value = 0
        /\ \A j \in 1..(i-1) : queue[j].code # k

\* C4: every key-down and key-up of the triggering chord is written to the
\* outgoing sink before the switch: while the debounce delay of a chord
\* runs, which ends in the switch and during which no event is read, no
\* key-up of the chord's keys is still unread.
C4_ChordReachesOutgoingSink ==
    \A t \in 1..MaxThreads :
        thr[t].pc = "sleep" => \A k \in TriggeringKeys(t) : ~PendingKeyUp(k)

\* C5 (P4): an accepted Release(g) of the active target g leaves the active
\* target at the host override if one remains, otherwise at HOST, and emits
\* one Target change, with the display name of that target.
C5_ReleaseActiveResets ==
    [][(ret'.op = "Release" /\ ret'.val = "True" /\ target = ret'.vm) =>
        /\ current_host' = (IF current_host = ret'.vm THEN HOST ELSE current_host)
        /\ target' = current_host'
        /\ signals' = <<Display(target')>>]_vars

\* a was the active target and was released while b is the host override
C5_Witness ==
    /\ ret = Returned("Release", "a", "True")
    /\ current_host = "b" /\ target = "b"
    /\ signals = <<"b">>

\* C6: the ring is well formed: no element twice; HOST once and at index 0
\* when there is no host override; no HOST when a guest is the override.
C6_RingWellFormed ==
    /\ \A x \in Range(targets) : Count(targets, x) = 1
    /\ current_host = HOST => (targets # <<>> /\ targets[1] = HOST)
    /\ current_host # HOST => HOST \notin Range(targets)

RECURSIVE ToggleTimes(_, _)
ToggleTimes(s, n) == IF n = 0 THEN s ELSE ToggleTimes(Toggle(s), n - 1)

\* C7 (R2): from a state whose active target is in the ring, one Toggle
\* moves it to targets[(index + 1) mod len] and len(targets) Toggles in
\* succession leave it where it was.
C7_ToggleRoundTrip ==
    target \in Range(targets) =>
        /\ Toggle(Svc).target = targets[(Index(targets, target) % Len(targets)) + 1]
        /\ ToggleTimes(Svc, Len(targets)).target = target

\* C8: Toggle returns the display name of the target it made active:
\* "host device" for HOST, otherwise the guest's name.
C8_ToggleReturnsDisplay ==
    (ret.op = "Toggle" /\ ret.val # RaisedError) => ret.val = Display(target)

\* C9: Prepare(g) for a guest already in the ring returns false and changes
\* nothing: the ring, the active target, the plug-in tasks, the sinks and
\* symlinks of every device are as before.
C9_DuplicatePrepare ==
    [][(ret'.op = "Prepare" /\ ret'.vm \in Range(targets)) =>
        /\ ret'.val = "False"
        /\ UNCHANGED <<svcVars, domxml, devVars, keyVars>>]_vars

\* a second Prepare(a) came back false while a has its sink
C9_Witness ==
    /\ ret = Returned("Prepare", "a", "False")
    /\ "a" \in Range(targets)
    /\ \E o \in 1..MaxObjs : "a" \in dev[o].sinks

\* C10: Prepare with a document whose parse must fail (malformed root or
\* no <name>) returns false, leaves the ring as it was and creates no
\* plug-in task.
C10_InvalidConfigRejected ==
    [][\A vm \in Guests : \A xml \in {x \in XmlDocs : MustFail(x)} :
          vm_prepare(vm, xml) =>
              (ret'.val = "False" /\ targets' = targets /\ tasks' = tasks)]_vars

\* the devices plug-in's prepare task runs and fails: a source of the guest
\* has no device in the map before the step and none after it
PrepareFails ==
    /\ running /\ tasks # <<>>
    /\ Head1.plugin = "devices" /\ Head1.func = "vm_prepare"
    /\ tasks' = Tail(tasks)
    /\ \E src \in Head1.config.devices : devices[src] = 0 /\ devices'[src] = 0

\* C11: when a plug-in's prepare for g fails with an uncaught error, the
\* daemon keeps running and serving bus calls (Prepare(g) has returned by
\* then, and was to return false).
C11_PrepareFailureSurvived == [][PrepareFails => running']_vars

\* C12: Release(g, xml) for a guest g of the ring whose XML fails to parse
\* still removes g from the ring, and resets the active target when g was
\* the active target.
C12_ReleaseWithBadXml ==
    [][\A vm \in Guests : \A xml \in {x \in XmlDocs : ParseRaises(x)} :
          (vm \in Range(targets) /\ vm_release(vm, xml)) =>
              (vm \notin Range(targets') /\ target' # vm)]_vars

\* the devices plug-in's release task runs and fails: a source of the guest
\* has no device in the map (KeyError)
ReleaseFails ==
    /\ running /\ tasks # <<>>
    /\ Head1.plugin = "devices" /\ Head1.func = "vm_release"
    /\ tasks' = Tail(tasks)
    /\ \E src \in Head1.config.devices : devices[src] = 0

\* C13: when a plug-in's release for g fails, the daemon keeps running (the
\* other plug-ins' releases run to completion and Release(g) returned true).
C13_ReleaseFailureSurvived == [][ReleaseFails => running']_vars

\* C14: once all pending work has run, no device is left with only the
\* HOST sink (it was torn down: tasks cancelled, HOST sink and symlink
\* removed, source closed), and no device has a sink for a released guest.
C14_TornDown ==
    Quiescent =>
        \A o \in 1..MaxObjs :
            /\ dev[o].sinks # {HOST}
            /\ dev[o].sinks \cap (Guests \ LiveGuests) = {}
            /\ dev[o].sinks = {} =>
                   (~dev[o].source_open /\ dev[o].grab_task = 0 /\ dev[o].replicate_task = 0)

\* Prepare(vm, xml) and Release(vm, xml) with every plug-in task of the two
\* calls run in the order the loop runs them: the ring and the map's
\* sources after the pair
RoundTrip(vm, xml) ==
    LET config == VirtualMachineConfig(xml)
        s1 == [Svc EXCEPT !.targets = Append(@, vm)]
        D1 == ManagerPrepare(World, vm, config.hotkey, config.devices, TRUE)
        s2 == IF "other" \in config.pci THEN SetHost(s1, vm) ELSE s1
        s3 == ReleaseGuest(s2, vm, config)
        s4 == IF "boot" \in config.pci THEN SetHost(s3, HOST) ELSE s3
        D2 == ManagerRelease(D1, vm, config.hotkey, config.devices, vm_count(s4.targets))
    IN [targets |-> s4.targets,
        mapped |-> {src \in Sources : D2.devices[src] # 0},
        over |-> D1.over]

\* the documents of guests that pass no PCI device through
RoundTripXml == {xml \in GoodXml : xml.pci = {}}

\* C15 (R1): from a state with no pending call, an accepted Prepare(g)
\* followed by an accepted Release(g) leaves, once the plug-in work has
\* run, the ring and the sources of the device manager's map as they were.
C15_PrepareReleaseRoundTrip ==
    \A vm \in Guests : \A xml \in RoundTripXml :
        (BusReady /\ vm \notin Range(targets) /\ ~RoundTrip(vm, xml).over) =>
            /\ RoundTrip(vm, xml).targets = targets
            /\ RoundTrip(vm, xml).mapped = {src \in Sources : devices[src] # 0}

\* the debounce of thread t ends in a switch of the active target
ChordSwitch(t) == thr[t].pc = "sleep" /\ thr'[t].pc # "sleep" /\ target' # target

\* C16: after a chord-triggered switch the first event the newly selected
\* sink receives is no key of the triggering chord: the switch does not
\* inject keys of the triggering chord (the QEMU grab chord written by grab
\* on target_changed) into that sink.
C16_FirstEventNotOfChord ==
    [][\A t \in 1..MaxThreads :
          ChordSwitch(t) =>
              ~ /\ <<thr[t].obj, target'>> \in injected' \ injected
                /\ hotkeys_qemu \cap TriggeringKeys(t) # {}]_vars

\* C17: assigning the target the value it has (a HOST request resolved to
\* the host override first) changes nothing: the active target, released,
\* the ring and the override stay, no Target change is emitted and no
\* target_changed task is created.
C17_SameTargetNoOp ==
    [][(ret'.op = "Target" /\ Resolved(ret'.val) = target) =>
        /\ UNCHANGED <<target, released, targets, current_host, tasks>>
        /\ signals' = <<>>]_vars

\* the Target property was written with "a" while a was the active target
\* and the devices were released: they stay released, nothing is emitted
C17_Witness ==
    /\ ret = Returned("Target", "-", "a")
    /\ target = "a" /\ released
    /\ signals = <<>> /\ tasks = <<>>

\* the release chord fired on thread t and its delay is over
ReleaseToggle(t) ==
    /\ thr[t].pc = "sleep" /\ "release" \in thr[t].firing
    /\ thr'[t].pc # "sleep"

\* released is toggled by the chord and nothing else of the service changes
ReleaseFrame ==
    \A t \in 1..MaxThreads :
        ReleaseToggle(t) =>
            /\ released' = ~released
            /\ UNCHANGED <<target, targets, current_host, tasks>>
            /\ signals' = <<>>

\* an event is read from the source while released
ReleasedRead == released /\ queue # <<>> /\ queue' = Tail(queue)

Signalled == \E i \in 1..Len(tasks) : tasks[i].func = "stop"

\* nothing is left to run on any device thread
ThreadsIdle == \A t \in 1..MaxThreads : thr[t].pc # "spawned" /\ ~thr[t].destroy

\* C19: after a termination signal, once the device threads have nothing
\* left to run, every device has its tasks cancelled, its sinks and symlinks
\* removed and its source released, as the stop of the plug-ins leaves
\* them.
C19_StoppedAfterSignal ==
    (~running /\ Signalled /\ ThreadsIdle) =>
        /\ \A o \in 1..MaxObjs :
              /\ dev[o].sinks = {} /\ ~dev[o].source_open
              /\ dev[o].grab_task = 0 /\ dev[o].replicate_task = 0
        /\ OwnedLinks = {}

\* the CPUs pinned by the guests that run
PinnedByLive == UNION {pinned_cpus[g] : g \in DOMAIN pinned_cpus}

\* C20 (I5): the cpuset last written to each slice of the host is every CPU
\* that no running guest pins, or CPU 0 alone when the guests pin them all.
C20_HostCpuset ==
    \A cgroup \in HOST_CGROUPS :
        cpuset[cgroup] = IF ALL_CPUS \ PinnedByLive # {}
                         THEN ALL_CPUS \ PinnedByLive ELSE {0}

\* C21 (P3): every cpuset written to a slice of the host is non-empty and
\* contains CPU 0, whatever the running guests pin.
C21_HostKeepsCpu0 ==
    \A cgroup \in HOST_CGROUPS : cpuset[cgroup] # {} /\ 0 \in cpuset[cgroup]

\* a guest with pinned CPUs runs
ShieldedLive == \E g \in DOMAIN pinned_cpus : pinned_cpus[g] # {}

\* C22 (R3): while a guest with pinned CPUs runs the tunables hold 120, 0
\* and 1, and when none runs they hold the values they had before the first
\* prepare.
C22_TunablesSetAndRestored ==
    sysctl = IF ShieldedLive THEN ShieldedValue ELSE BootValue

\* C23: after the gpu plug-in's prepare for a guest, the guest is the host
\* override and HOST is out of the ring if and only if one of its PCI
\* devices is the boot GPU; when none is, the override, the ring and the
\* active target are left as they were.
C23_OverrideIffBootGpu ==
    [][gpu_vm_prepare =>
        IF "boot" \in Head1.config.pci
        THEN current_host' = Head1.vm /\ HOST \notin Range(targets')
        ELSE UNCHANGED <<current_host, targets, target>>]_vars

\* C24: when the source of a guest's input device stays missing for the
\* whole wait, the failure is surfaced as Prepare returning false: the
\* Prepare whose devices task gives up did not return true.
C24_MissingSourceSurfaced ==
    [][PrepareFails => ret # Returned("Prepare", Head1.vm, "True")]_vars

\* the threads on which a replicate task reads the source of object o
Readers(o) == {t \in DOMAIN thr : thr[t].obj = o /\ thr[t].pc \in {"loop", "sleep"}}

\* C25: at most one replicate task reads a source at any time.
C25_OneReader == \A o \in 1..MaxObjs : Cardinality(Readers(o)) <= 1

\* C26: the ring, the active target, released and the host override change
\* only in steps of the service's loop: the step a replicator thread takes
\* when a chord's delay is over leaves them as they are (the change is
\* posted to the loop).
C26_ReplicatorLeavesFocusState ==
    [][\A t \in 1..MaxThreads :
          debounce(t) => UNCHANGED <<targets, target, released, current_host>>]_vars

\* C27: the sinks and chords of a device change only in steps of its own
\* thread: while a replicate task reads the device, the tasks of the
\* service's loop leave its sinks and chords as they are (the change is
\* posted to the thread).
C27_LoopLeavesSinks ==
    [][(devices_vm_prepare(TRUE) \/ devices_vm_release) =>
          \A o \in 1..MaxObjs :
              Readers(o) # {} =>
                  /\ dev'[o].sinks = dev[o].sinks
                  /\ dev'[o].hotkeys = dev[o].hotkeys]_vars

\* the threads between the check of the target setter and its end
Assigning == {a \in Actors : act[a].pc \in {"lock", "released", "target", "emit"}}

\* C28: the pair (active target, released) a reader of the focus gets is a
\* pair that was in force before or after an assignment while it read, never
\* a mix of two, and two target assignments never overlap between their
\* check and their update.
C28_NoHalfUpdatedFocus ==
    /\ \A a \in Actors : ~act[a].torn
    /\ Cardinality(Assigning) <= 1

\* C29: the chord detectors run on every KEY event read from a source,
\* whether or not the current target has a sink on it: the key-down that
\* completes the toggle chord arms the toggle detector of the thread that
\* reads it, so that cycling follows when the keys are let go.
C29_ToggleChordDetected ==
    [][\A t \in 1..MaxThreads :
          (replicate(t) /\ ArmsToggle(Head(queue), held)) => thr'[t].is_toggle]_vars

\* the keys held after the first i events of the source
HeldAt(i) ==
    {k \in Keys : \E j \in 1..i :
        /\ evlog[j].code = k /\ evlog[j].value = 1
        /\ \A m \in (j + 1)..i : evlog[m].code # k}

\* the keys of the chord of a detector of thread t
ChordOf(t, d) ==
    IF d = "release" THEN hotkeys_release
    ELSE IF d = "toggle" THEN hotkeys_toggle
    ELSE thr[t].hotkey_triggered

\* the source saw a press of exactly the keys C: from a moment no key was
\* held up to the next such moment (or the end of the events so far) no key
\* outside C was held, and at some point all of C were
CleanPress(C) ==
    \E s \in 1..Len(evlog) :
        /\ HeldAt(s - 1) = {}
        /\ \E e \in s..Len(evlog) :
              /\ \A i \in s..(e - 1) : HeldAt(i) # {}
              /\ HeldAt(e) = {} \/ e = Len(evlog)
              /\ \A i \in s..e : HeldAt(i) \subseteq C
              /\ \E i \in s..e : HeldAt(i) = C

\* C30: a detector fires only when the keys of its chord, and no others,
\* were held: the source saw a press in which, from the first key-down to
\* the event at which all keys are up, no key outside the chord was held.
C30_NoExtraKeys ==
    \A t \in 1..MaxThreads :
        thr[t].pc = "sleep" =>
            \A d \in thr[t].firing : CleanPress(ChordOf(t, d))

\* the loop of replicator thread t was stopped by an error raised in its
\* replicate task (task.py: handle_exception, on the thread's own loop)
Crashed(t) == thr[t].pc = "crashed"

\* C31: after an unhandled error in a device's replicate task the device is
\* torn down: once the service's loop is idle, the device of a thread whose
\* task failed has no sink and no symlink left and its source is released.
C31_FailedDeviceTornDown ==
    \A t \in 1..MaxThreads :
        (Crashed(t) /\ BusReady) =>
            /\ dev[thr[t].obj].sinks = {}
            /\ ~dev[thr[t].obj].source_open
            /\ \A p \in OwnedLinks : symlinks[p] # thr[t].obj

\* thread t writes an event to a sink that was closed after the thread got
\* it
WriteToClosedSink(t) ==
    /\ replicate_write(t)
    /\ ~HasSink(thr[t].obj, thr[t].sink)

\* C32: an I/O error raised while an event is written to a sink that a
\* concurrent detach closed is swallowed: the read loop of the thread goes
\* on, so that the next events of the source are read and forwarded.
C32_WriteErrorSwallowed ==
    [][\A t \in 1..MaxThreads : WriteToClosedSink(t) => thr'[t].pc = "loop"]_vars

\* plug-in p comes before plug-in q in the order of the function: the
\* declaration order, and its reverse for vm_release
Before(func, p, q) ==
    IF func = "vm_release" THEN Index(Plugins, p) > Index(Plugins, q)
    ELSE Index(Plugins, p) < Index(Plugins, q)

\* the loop starts the task at the head of its queue
TaskInvoked ==
    \/ devices_vm_prepare(TRUE)
    \/ devices_vm_prepare_wait
    \/ devices_vm_release
    \/ gpu_vm_prepare
    \/ gpu_vm_release

\* C33: the plug-ins' prepare for a guest is invoked in declaration order
\* and their release in reverse declaration order, also when an earlier
\* plug-in suspends: whenever a plug-in's task for a guest is invoked, every
\* task of the same function for the same guest that is still to be invoked
\* is of a plug-in later in that order.
C33_InvokedInOrder ==
    [][TaskInvoked =>
        \A i \in 2..Len(tasks) :
            (tasks[i].vm = Head1.vm /\ tasks[i].func = Head1.func) =>
                Before(Head1.func, Head1.plugin, tasks[i].plugin)]_vars

\* the devices plug-in's prepare for a is suspended, waiting for the source,
\* and the gpu plug-in's prepare for a was invoked after it and has run
C33_Witness ==
    /\ running /\ tasks = <<>>
    /\ waiting # <<>> /\ Head(waiting).vm = "a" /\ Head(waiting).plugin = "devices"
    /\ current_host = "a"

\* C34: every change of the active target leaves released false, so that
\* the focus the devices read is the new active target (the host override
\* when the new target is HOST) and not what released steers to.
C34_ChangeClearsReleased ==
    [][target' # target =>
        /\ ~released'
        /\ TargetGet(Svc)' = (IF target' # HOST THEN target' ELSE current_host')]_vars

\* a thread's assignment found the devices released and has cleared released
\* and written the new active target
C34_Witness ==
    \E a \in Actors :
        /\ act[a].pc = "emit" /\ act[a].was
        /\ target = act[a].val /\ ~released

\* the call that undoes a call of the gpu plug-in
Undo ==
    [stop_display_manager |-> "start_display_manager",
     unbind_vtcons |-> "bind_vtcons",
     unbind_framebuffer |-> "bind_framebuffer",
     nodedev_detach |-> "nodedev_reattach",
     unload |-> "load",
     load_vfio |-> "unload_vfio"]

\* the calls that undo the calls of ops, last call first
Undone(ops) == [i \in 1..Len(ops) |-> Undo[ops[Len(ops) + 1 - i]]]

\* C35: the gpu plug-in's release for a boot-GPU guest undoes every step of
\* its prepare in exactly the reverse order: what release did is the undoing
\* of each step prepare took, last step first.
C35_ReleaseReversesPrepare ==
    gpu_ops.release # <<>> => gpu_ops.release = Undone(gpu_ops.prepare)

\* the smallest number of units of b that hold a
Ceil(a, b) == (a \div b) + (IF a % b = 0 THEN 0 ELSE 1)

\* the pages of s kB that hold b bytes
PagesFor(b, s) == Ceil(Ceil(b, 1024), s)

\* C36: for a guest of b bytes that the memory plug-in has prepared, the
\* number of huge pages computed for b is ceil(ceil(b / 1024) / s) for both
\* page sizes s, 2048 kB and 1048576 kB: by the manager's get_1g_hugepages
\* and get_2m_hugepages and by HugePages._get_pages.
C36_PagesAreCeiling ==
    mem.pc = "prepared" =>
        /\ get_1g_hugepages(mem.memory) = PagesFor(mem.memory, HUGEPAGES_1G)
        /\ get_2m_hugepages(mem.memory) = PagesFor(mem.memory, HUGEPAGES_2M)
        /\ \A s \in {HUGEPAGES_2M, HUGEPAGES_1G} :
              GetPages(mem.memory, s) = PagesFor(mem.memory, s)

\* C40: once the memory plug-in has prepared and then released a
\* hugepage-backed guest, nr_hugepages is what it was before the prepare,
\* whether the prepare grew the pool or found enough free pages, and the
\* value the release wrote is not negative.
C40_ReleaseRestoresPool ==
    mem.pc = "released" => (mem.nr_hugepages = mem.before /\ mem.written >= 0)

\* C37: vm_count is the number of guests that are prepared and not
\* released, also while a guest is the host override and HOST is not in
\* the ring.
C37_VmCountIsLiveGuests == vm_count(targets) = Cardinality(LiveGuests)

\* the devices plug-in attaches g to its sources or detaches it from them
AttachDetach(g) ==
    /\ devices_vm_prepare(TRUE) \/ devices_vm_release
    /\ Head1.vm = g

\* C38: attaching a guest g to a device or detaching it from the device
\* neither removes nor retargets the entry of a chord that maps to HOST or
\* to another live guest, also when two targets are given the same chord.
C38_ChordEntriesKept ==
    [][\A g \in Guests : AttachDetach(g) =>
          \A o \in 1..MaxObjs : \A c \in Chords :
             (/\ dev[o] # NoDev
              /\ dev[o].hotkeys[c] \in ({HOST} \cup LiveGuests) \ {g})
             => dev'[o].hotkeys[c] = dev[o].hotkeys[c]]_vars

\* the devices plug-in's vm_prepare for g is suspended in its retry loop
Suspended(g) == \E i \in 1..Len(waiting) : waiting[i].vm = g

\* nothing of g is left on the devices: no sink and no symlink
NothingLeft(g) ==
    /\ \A o \in 1..MaxObjs : dev[o] # NoDev => g \notin dev[o].sinks
    /\ \A src \in Sources : symlinks[<<g, src>>] = 0

\* C39: when g is released while the devices plug-in's vm_prepare for g is
\* suspended waiting for a source that does not exist, the release's task
\* ends without an error and the daemon keeps running; and when the
\* suspended vm_prepare of a guest that is released ends after the release's
\* task, no sink and no symlink of g is left.
C39_ReleaseWhileSuspended ==
    [][/\ (devices_vm_release /\ Suspended(Head1.vm)) => running'
       /\ \A i \in 1..Len(waiting), present \in BOOLEAN, g \in Guests :
            (/\ devices_vm_prepare_resume(i, present)
             /\ waiting[i].vm = g /\ g \notin LiveGuests
             /\ \A j \in 1..Len(tasks) : tasks[j].vm # g)
            => (running' /\ NothingLeft(g)')]_vars

====
